---- MODULE Spec2Model ----
(***************************************************************************)
(* State-machine model of the W25Q128FV flash driver                       *)
(* (src/Src/w25q128fv_driver.c).  Every bus-visible HAL call of the driver *)
(* (chip-select writes, SPI transmit/receive, delays) is appended to the   *)
(* log `bus`; the transport outcome of every SPI call is chosen            *)
(* nondeterministically among the four HAL_StatusTypeDef values.           *)
(*                                                                         *)
(* uint32_t values are pairs <<hi, lo>> of 16-bit limbs so that the C      *)
(* arithmetic modulo 2^32 is computed exactly.                             *)
(***************************************************************************)
EXTENDS Integers, Sequences, FiniteSets, TLC

(* ---------------- program constants (driver.c lines 4-23) -------------- *)
W25Q128FV_PAGE_SIZE_IN_BYTES == 256
W25Q128FV_TOTAL_SECTORS == 4085
W25Q128FV_TOTAL_SECTORS_MINUS_ONE == 4084
W25Q128FV_FLASH_MEMORY_TOTAL_SIZE_IN_BYTES == 16731136
W25Q128FV_SECTOR_SIZE_IN_BYTES == 4096
W25Q128FV_MAX_CONSECUTIVE_PROGRAMMABLE_BYTES == 255
W25Q128FV_ENABLE_RESET_INSTRUCTION == 102
W25Q128FV_RESET_DEVICE_INSTRUCTION == 153
W25Q128FV_READ_JEDEC_ID_INSTRUCTION == 159
W25Q128FV_READ_DATA_INSTRUCTION == 3
W25Q128FV_FAST_READ_INSTRUCTION == 11
W25Q128FV_SECTOR_ERASE_INSTRUCTION == 32
W25Q128FV_CHIP_ERASE_INSTRUCTION == 199
W25Q128FV_PAGE_PROGRAM_INSTRUCTION == 2
W25Q128FV_PAGE_PROGRAM_INSTRUCTION_MAX_SIZE_IN_BYTES == 259
W25Q128FV_WRITE_ENABLE_INSTRUCTION == 6
W25Q128FV_WRITE_DISABLE_INSTRUCTION == 4

(* ---------------- bounds of the model ---------------------------------- *)
\* start pages 0..MaxSmallPage are tried besides the boundary pages
MaxSmallPage == 1
\* request sizes 0..MaxSmallSize are tried besides the boundary sizes
MaxSmallSize == 2
\* sector numbers 0..MaxSmallSector are tried besides the boundary sectors
MaxSmallSector == 1
\* number of calls of public operations the caller makes in one behaviour
MaxCalls == 1
\* consecutive calls of w25q128fv_erase_sector in SpecErase
MaxEraseCalls == 2

(* ---------------- uint32_t arithmetic on 16-bit limbs ------------------ *)
Limb == 65536

ToU32(n) == <<(n \div Limb) % Limb, n % Limb>>

\* value of a uint32_t below 2^31 as an integer
ToInt(u) == u[1] * Limb + u[2]

U32Add(a, b) ==
    LET s == a[2] + b[2]
    IN  <<(a[1] + b[1] + (s \div Limb)) % Limb, s % Limb>>

U32Sub(a, b) ==
    LET d == a[2] - b[2]
        borrow == IF d < 0 THEN 1 ELSE 0
    IN  <<(a[1] - b[1] - borrow) % Limb, d % Limb>>

\* product with a small constant k (k <= 4096), modulo 2^32
U32Mul(a, k) ==
    LET p == a[2] * k
    IN  <<(a[1] * k + (p \div Limb)) % Limb, p % Limb>>

U32Lt(a, b) == a[1] < b[1] \/ (a[1] = b[1] /\ a[2] < b[2])

U32Gt(a, b) == U32Lt(b, a)

U32Inc(a) == U32Add(a, <<0, 1>>)

\* (uint8_t)(a >> 16), (uint8_t)(a >> 8), (uint8_t)(a)
Shr16Byte(a) == a[1] % 256
\* Shr8Byte with the shift left out
Shr8Byte_NoShift(a) == a[2] % 256
Shr8Byte(a) == a[2] \div 256
LowByte(a) == a[2] % 256

(* ---------------- status codes ----------------------------------------- *)
HAL_StatusTypeDef == {"HAL_OK", "HAL_ERROR", "HAL_BUSY", "HAL_TIMEOUT"}

\* HAL_ret_handler with the HAL_BUSY case missing
HAL_ret_handler_BusyIsOk(HAL_status) ==
    CASE HAL_status = "HAL_TIMEOUT" -> "W25Q128FV_EC_NR"
      [] HAL_status = "HAL_ERROR" -> "W25Q128FV_EC_ERR"
      [] OTHER -> "W25Q128FV_EC_OK"

HAL_ret_handler(HAL_status) ==
    CASE HAL_status \in {"HAL_BUSY", "HAL_TIMEOUT"} -> "W25Q128FV_EC_NR"
      [] HAL_status = "HAL_ERROR" -> "W25Q128FV_EC_ERR"
      [] OTHER -> "W25Q128FV_EC_OK"

(* ---------------- bus events ------------------------------------------- *)
NoU32 == <<0, 0>>

EvCsLow  == [ev |-> "cs_low",  frame |-> <<>>, hal |-> "", size |-> NoU32, ms |-> 0]
EvCsHigh == [ev |-> "cs_high", frame |-> <<>>, hal |-> "", size |-> NoU32, ms |-> 0]
EvTx(f, h) == [ev |-> "tx", frame |-> f, hal |-> h, size |-> NoU32, ms |-> 0]
EvRx(data, n, h) == [ev |-> "rx", frame |-> data, hal |-> h, size |-> n, ms |-> 0]
\* EvDelay that waits for no time at all
EvDelay_NoWait(t) ==
    [ev |-> "delay", frame |-> <<>>, hal |-> "", size |-> NoU32, ms |-> 0]
EvDelay(t) == [ev |-> "delay", frame |-> <<>>, hal |-> "", size |-> NoU32, ms |-> t]

\* Bracket with set_cs_pin_high() called before HAL_SPI_Transmit
Bracket_ReleaseBeforeTransmit(f, h) == <<EvCsLow, EvCsHigh, EvTx(f, h)>>

\* Bracket with the set_cs_pin_high() call missing
Bracket_NoRelease(f, h) == <<EvCsLow, EvTx(f, h)>>

\* set_cs_pin_low(); HAL_SPI_Transmit(frame); set_cs_pin_high();
Bracket(f, h) == <<EvCsLow, EvTx(f, h), EvCsHigh>>

\* send_w25q128fv_write_enable_instruction dropping the transport outcome
send_w25q128fv_write_enable_instruction_IgnoresOutcome(h) ==
    [events |-> Bracket(<<W25Q128FV_WRITE_ENABLE_INSTRUCTION>>, h),
     ret    |-> "W25Q128FV_EC_OK"]

send_w25q128fv_write_enable_instruction(h) ==
    [events |-> Bracket(<<W25Q128FV_WRITE_ENABLE_INSTRUCTION>>, h),
     ret    |-> HAL_ret_handler(h)]

\* send_w25q128fv_write_disable_instruction sending the write-enable opcode
send_w25q128fv_write_disable_instruction_WrongOpcode(h) ==
    [events |-> Bracket(<<W25Q128FV_WRITE_ENABLE_INSTRUCTION>>, h),
     ret    |-> HAL_ret_handler(h)]

send_w25q128fv_write_disable_instruction(h) ==
    [events |-> Bracket(<<W25Q128FV_WRITE_DISABLE_INSTRUCTION>>, h),
     ret    |-> HAL_ret_handler(h)]

\* AddressedFrame with the address least-significant byte first
AddressedFrame_LittleEndian(opcode, a) ==
    <<opcode, LowByte(a), Shr8Byte(a), Shr16Byte(a)>>

\* opcode followed by the three address bytes of a
AddressedFrame(opcode, a) == <<opcode, Shr16Byte(a), Shr8Byte(a), LowByte(a)>>

(* ---------------- inputs ----------------------------------------------- *)
TotalSize == ToU32(W25Q128FV_FLASH_MEMORY_TOTAL_SIZE_IN_BYTES)

StartPages ==
    {ToU32(p) : p \in 0..MaxSmallPage}
        \cup {ToU32(65355), ToU32(65356), <<256, 0>>, <<65535, 65535>>}

Offsets == {0, 1, 250, 255}

Sizes ==
    {ToU32(n) : n \in 0..MaxSmallSize}
        \cup {ToU32(6), ToU32(255), ToU32(256), ToU32(257), ToU32(300),
              <<65535, 65535>>}

SectorNumbers ==
    {ToU32(n) : n \in 0..MaxSmallSector}
        \cup {ToU32(W25Q128FV_TOTAL_SECTORS_MINUS_ONE),
              ToU32(W25Q128FV_TOTAL_SECTORS), <<16, 0>>, <<65535, 65535>>}

RespBytes == {0, 1, 24, 64, 239, 255}

\* values the caller's identifier variable may hold before read_id
CallerIds == {0, 11259375}

\* content of the caller's source buffer
Src(i) == (i * 7 + 3) % 251

NoArgs == [start_page |-> NoU32, page_bytes_offset |-> 0, size |-> NoU32,
           sector_number |-> NoU32]

(* ---------------- state ------------------------------------------------ *)
VARIABLES
    pc,             \* position of the running operation, "idle" between calls
    op,             \* name of the running / last operation
    args,           \* its arguments
    ret,            \* its return value once it returned
    cs,             \* chip-select line: "high" (deasserted) or "low"
    bus,            \* HAL calls of the running / last operation, in order
    w25q128fv_id,   \* the caller's variable behind the out-pointer of the
                    \* running / last read_id (0 for the other operations)
    wr,             \* locals of w25q128fv_write_flash_memory
    calls,          \* number of public operations entered so far
    prev            \* the operation that returned before the running / last
                    \* one, where the caller keeps it (SpecErase)

vars == <<pc, op, args, ret, cs, bus, w25q128fv_id, wr, calls, prev>>

\* value standing for a byte of page_program_instruction never assigned
Uninit == 0 - 1

NoLocals == [current_w25q128fv_flash_memory_address |-> NoU32,
             w25q128fv_flash_memory_addr_end_plus_one |-> NoU32,
             page_program_instruction |-> [i \in {} |-> Uninit],
             currently_written_bytes |-> NoU32,
             current_page_program_instruction_size |-> 0,
             current_page_to_write |-> NoU32,
             next_page_to_write |-> NoU32,
             remaining_writable_bytes_in_current_page |-> 0,
             current_byte |-> 0]

\* no operation returned yet
NoPrev == [op |-> "none", args |-> NoArgs, ret |-> "NONE", bus |-> <<>>]

Init ==
    /\ pc = "idle"
    /\ op = "none"
    /\ args = NoArgs
    /\ ret = "NONE"
    /\ cs = "high"
    /\ bus = <<>>
    /\ w25q128fv_id = 0
    /\ wr = NoLocals
    /\ calls = 0
    /\ prev = NoPrev

\* the caller enters the public operation name, as one of at most limit calls
EnterWithin(name, limit) ==
    /\ pc = "idle"
    /\ calls < limit
    /\ calls' = calls + 1
    /\ op' = name

\* the caller enters the public operation name, having taken note of what
\* the call before it returned
Enter(name) ==
    /\ op = "none"
    /\ EnterWithin(name, MaxCalls)
    /\ UNCHANGED prev

\* the chip-select level after the events es
CsAfter(c, es) ==
    LET idx == {i \in 1..Len(es) : es[i].ev \in {"cs_low", "cs_high"}}
    IN  IF idx = {} THEN c
        ELSE LET last == CHOOSE i \in idx : \A j \in idx : j <= i
             IN  IF es[last].ev = "cs_low" THEN "low" ELSE "high"

\* the operation, whose log so far is base, performs the HAL calls es and
\* continues at p ("idle": it returns) with return value r
Do(base, es, p, r) ==
    /\ bus' = base \o es
    /\ cs' = CsAfter(cs, es)
    /\ pc' = p
    /\ ret' = r

\* the running operation performs the HAL calls es and continues at p
Step(es, p) == Do(bus, es, p, "NONE")

\* the running operation performs the HAL calls es and returns r
Return(es, r) == Do(bus, es, "idle", r)

\* an operation other than read_id and write is entered: it has neither an
\* identifier out-pointer nor the locals of write
NoOutParam ==
    /\ w25q128fv_id' = 0
    /\ wr' = NoLocals

\* between two calls: the caller has taken note of the return value and of
\* the data it got; of the driver nothing but the chip-select line and the
\* file-scope pointers (lines 25-26) outlives a call
caller_continues ==
    /\ pc = "idle"
    /\ op # "none"
    /\ op' = "none"
    /\ args' = NoArgs
    /\ ret' = "NONE"
    /\ bus' = <<>>
    /\ w25q128fv_id' = 0
    /\ wr' = NoLocals
    /\ UNCHANGED <<pc, cs, calls, prev>>

(* ---------------- w25q128fv_software_reset (lines 95-114) -------------- *)
software_reset ==
    /\ Enter("software_reset")
    /\ args' = NoArgs
    /\ \E h \in HAL_StatusTypeDef :
         LET es == Bracket(<<W25Q128FV_ENABLE_RESET_INSTRUCTION,
                             W25Q128FV_RESET_DEVICE_INSTRUCTION>>, h)
             r  == HAL_ret_handler(h)
         IN  IF r # "W25Q128FV_EC_OK"
             THEN Do(<<>>, es, "idle", r)
             ELSE Do(<<>>, es \o <<EvDelay(1)>>, "idle", "W25Q128FV_EC_OK")
    /\ NoOutParam

(* ---------------- w25q128fv_read_id (lines 116-154) -------------------- *)
RECURSIVE BitOr(_, _)
BitOr(a, b) ==
    IF a = 0 THEN b
    ELSE IF b = 0 THEN a
    ELSE (IF a % 2 = 1 \/ b % 2 = 1 THEN 1 ELSE 0)
             + 2 * BitOr(a \div 2, b \div 2)

\* line 145
JedecIdIsZero(resp) == resp[1] = 0 /\ resp[2] = 0 /\ resp[3] = 0

\* PackJedecId with the bytes in little-endian order
PackJedecId_LittleEndian(resp) ==
    BitOr(BitOr(resp[3] * 65536, resp[2] * 256), resp[1])

\* line 151: (resp[0]<<16)|(resp[1]<<8)|(resp[2])
PackJedecId(resp) == BitOr(BitOr(resp[1] * 65536, resp[2] * 256), resp[3])

\* entry, chip-select low and transmit of the instruction (lines 126-133)
read_id ==
    /\ Enter("read_id")
    /\ args' = NoArgs
    /\ \E prior \in CallerIds : w25q128fv_id' = prior
    /\ \E h \in HAL_StatusTypeDef :
         LET es == <<EvCsLow, EvTx(<<W25Q128FV_READ_JEDEC_ID_INSTRUCTION>>, h)>>
             r  == HAL_ret_handler(h)
         IN  IF r # "W25Q128FV_EC_OK"
             THEN Do(<<>>, es \o <<EvCsHigh>>, "idle", r)
             ELSE Do(<<>>, es, "id_rx", "NONE")
    /\ wr' = NoLocals

\* read_id_receive that stores the identifier before it validates the
\* response
read_id_receive_StoresBeforeValidation ==
    /\ pc = "id_rx"
    /\ \E h \in HAL_StatusTypeDef :
         \E resp \in RespBytes \X RespBytes \X RespBytes :
           LET r == HAL_ret_handler(h)
               data == IF h = "HAL_OK" THEN resp ELSE <<>>
               es == <<EvRx(data, ToU32(3), h), EvCsHigh>>
           IN  /\ h # "HAL_OK" => resp = <<0, 0, 0>>
               /\ IF r # "W25Q128FV_EC_OK"
                  THEN Return(es, r) /\ UNCHANGED w25q128fv_id
                  ELSE /\ w25q128fv_id' = PackJedecId(resp)
                       /\ IF JedecIdIsZero(resp)
                          THEN Return(es, "W25Q128FV_EC_NR")
                          ELSE Return(es, "W25Q128FV_EC_OK")
    /\ UNCHANGED <<op, args, wr, calls, prev>>

\* receive of the response and its validation (lines 136-153)
read_id_receive ==
    /\ pc = "id_rx"
    /\ \E h \in HAL_StatusTypeDef :
         \E resp \in RespBytes \X RespBytes \X RespBytes :
           LET r == HAL_ret_handler(h)
               data == IF h = "HAL_OK" THEN resp ELSE <<>>
               es == <<EvRx(data, ToU32(3), h), EvCsHigh>>
           IN  /\ h # "HAL_OK" => resp = <<0, 0, 0>>
               /\ IF r # "W25Q128FV_EC_OK"
                  THEN Return(es, r) /\ UNCHANGED w25q128fv_id
                  ELSE IF JedecIdIsZero(resp)
                  THEN Return(es, "W25Q128FV_EC_NR") /\ UNCHANGED w25q128fv_id
                  ELSE Return(es, "W25Q128FV_EC_OK")
                       /\ w25q128fv_id' = PackJedecId(resp)
    /\ UNCHANGED <<op, args, wr, calls, prev>>

(* ---------------- read and fast read (lines 156-239) ------------------- *)
\* start_page * W25Q128FV_PAGE_SIZE_IN_BYTES + page_bytes_offset, in uint32_t
FlashMemoryAddr(start_page, page_bytes_offset) ==
    U32Add(U32Mul(start_page, W25Q128FV_PAGE_SIZE_IN_BYTES),
           ToU32(page_bytes_offset))

\* (addr + size) > W25Q128FV_FLASH_MEMORY_TOTAL_SIZE_IN_BYTES, in uint32_t
RangeInvalid(addr, size) == U32Gt(U32Add(addr, size), TotalSize)

ReadFrame(addr) == AddressedFrame(W25Q128FV_READ_DATA_INSTRUCTION, addr)

FastReadFrame(addr) ==
    AddressedFrame(W25Q128FV_FAST_READ_INSTRUCTION, addr) \o <<0>>

\* entry and validation of the range (lines 161-167, 203-209)
ReadEntry(name, txpc) ==
    /\ Enter(name)
    /\ \E sp \in StartPages, off \in Offsets, sz \in Sizes :
         /\ args' = [NoArgs EXCEPT !.start_page = sp,
                                   !.page_bytes_offset = off,
                                   !.size = sz]
         /\ IF RangeInvalid(FlashMemoryAddr(sp, off), sz)
            THEN Do(<<>>, <<>>, "idle", "W25Q128FV_EC_ERR")
            ELSE Do(<<>>, <<>>, txpc, "NONE")
    /\ NoOutParam

\* chip-select low and transmit of the instruction frame
\* (lines 169-184, 211-227)
ReadTransmit(txpc, fast, rxpc) ==
    /\ pc = txpc
    /\ \E h \in HAL_StatusTypeDef :
         LET addr == FlashMemoryAddr(args.start_page, args.page_bytes_offset)
             frame == IF fast THEN FastReadFrame(addr) ELSE ReadFrame(addr)
             es == <<EvCsLow, EvTx(frame, h)>>
             r  == HAL_ret_handler(h)
         IN  IF r # "W25Q128FV_EC_OK"
             THEN Return(es \o <<EvCsHigh>>, r)
             ELSE Step(es, rxpc)
    /\ UNCHANGED <<op, args, w25q128fv_id, wr, calls, prev>>

\* receive of size bytes into dst, chip-select high
ReadReceive(rxpc) ==
    /\ pc = rxpc
    /\ \E h \in HAL_StatusTypeDef :
         Return(<<EvRx(<<>>, args.size, h), EvCsHigh>>, HAL_ret_handler(h))
    /\ UNCHANGED <<op, args, w25q128fv_id, wr, calls, prev>>

read_flash_memory == ReadEntry("read_flash_memory", "rd_tx")

read_flash_memory_transmit == ReadTransmit("rd_tx", FALSE, "rd_rx")

read_flash_memory_receive == ReadReceive("rd_rx")

fast_read_flash_memory == ReadEntry("fast_read_flash_memory", "frd_tx")

fast_read_flash_memory_transmit ==
    ReadTransmit("frd_tx", TRUE, "frd_rx")

fast_read_flash_memory_receive == ReadReceive("frd_rx")

(* ---------------- erase sector (lines 241-288) ------------------------- *)
\* SectorNumberInvalid comparing against the sector count
SectorNumberInvalid_OffByOne(sector_number) ==
    U32Gt(sector_number, ToU32(W25Q128FV_TOTAL_SECTORS))

\* line 247
SectorNumberInvalid(sector_number) ==
    U32Gt(sector_number, ToU32(W25Q128FV_TOTAL_SECTORS_MINUS_ONE))

\* line 261, in uint32_t
\* SectorAddr with the page size in place of the sector size
SectorAddr_PageSized(sector_number) ==
    U32Mul(sector_number, W25Q128FV_PAGE_SIZE_IN_BYTES)

SectorAddr(sector_number) ==
    U32Mul(sector_number, W25Q128FV_SECTOR_SIZE_IN_BYTES)

SectorEraseFrame(sector_number) ==
    AddressedFrame(W25Q128FV_SECTOR_ERASE_INSTRUCTION, SectorAddr(sector_number))

\* validation and the write-enable exchange (lines 246-257)
EraseSectorBegin ==
    /\ \E n \in SectorNumbers :
         /\ args' = [NoArgs EXCEPT !.sector_number = n]
         /\ IF SectorNumberInvalid(n)
            THEN Do(<<>>, <<>>, "idle", "W25Q128FV_EC_ERR")
            ELSE \E h \in HAL_StatusTypeDef :
                   LET we == send_w25q128fv_write_enable_instruction(h)
                   IN  IF we.ret # "W25Q128FV_EC_OK"
                       THEN Do(<<>>, we.events, "idle", "W25Q128FV_EC_ERR")
                       ELSE Do(<<>>, we.events, "es_tx", "NONE")
    /\ NoOutParam

\* the caller calls w25q128fv_erase_sector
erase_sector ==
    /\ Enter("erase_sector")
    /\ EraseSectorBegin

\* the caller calls w25q128fv_erase_sector, one of MaxEraseCalls calls in a
\* row, and keeps what the call before it returned and put on the bus
erase_sector_again ==
    /\ EnterWithin("erase_sector", MaxEraseCalls)
    /\ prev' = [op |-> op, args |-> args, ret |-> ret, bus |-> bus]
    /\ EraseSectorBegin

\* the sector-erase exchange and the completion delay (lines 259-278)
erase_sector_transmit ==
    /\ pc = "es_tx"
    /\ \E h \in HAL_StatusTypeDef :
         LET es == Bracket(SectorEraseFrame(args.sector_number), h)
             r  == HAL_ret_handler(h)
         IN  IF r # "W25Q128FV_EC_OK"
             THEN Return(es, r)
             ELSE Step(es \o <<EvDelay(400)>>, "es_wd")
    /\ UNCHANGED <<op, args, w25q128fv_id, wr, calls, prev>>

\* the write-disable exchange (lines 280-287)
erase_sector_write_disable ==
    /\ pc = "es_wd"
    /\ \E h \in HAL_StatusTypeDef :
         LET wd == send_w25q128fv_write_disable_instruction(h)
         IN  IF wd.ret # "W25Q128FV_EC_OK"
             THEN Return(wd.events, "W25Q128FV_EC_ERR")
             ELSE Return(wd.events, "W25Q128FV_EC_OK")
    /\ UNCHANGED <<op, args, w25q128fv_id, wr, calls, prev>>

(* ---------------- chip erase (lines 290-323) --------------------------- *)
\* entry and the write-enable exchange (lines 297-302)
chip_erase ==
    /\ Enter("chip_erase")
    /\ args' = NoArgs
    /\ \E h \in HAL_StatusTypeDef :
         LET we == send_w25q128fv_write_enable_instruction(h)
         IN  IF we.ret # "W25Q128FV_EC_OK"
             THEN Do(<<>>, we.events, "idle", "W25Q128FV_EC_ERR")
             ELSE Do(<<>>, we.events, "ce_tx", "NONE")
    /\ NoOutParam

\* the chip-erase exchange and the completion delay (lines 304-313)
chip_erase_transmit ==
    /\ pc = "ce_tx"
    /\ \E h \in HAL_StatusTypeDef :
         LET es == Bracket(<<W25Q128FV_CHIP_ERASE_INSTRUCTION>>, h)
             r  == HAL_ret_handler(h)
         IN  IF r # "W25Q128FV_EC_OK"
             THEN Return(es, r)
             ELSE Step(es \o <<EvDelay(200000)>>, "ce_wd")
    /\ UNCHANGED <<op, args, w25q128fv_id, wr, calls, prev>>

\* the write-disable exchange (lines 315-322)
chip_erase_write_disable ==
    /\ pc = "ce_wd"
    /\ \E h \in HAL_StatusTypeDef :
         LET wd == send_w25q128fv_write_disable_instruction(h)
         IN  IF wd.ret # "W25Q128FV_EC_OK"
             THEN Return(wd.events, "W25Q128FV_EC_ERR")
             ELSE Return(wd.events, "W25Q128FV_EC_OK")
    /\ UNCHANGED <<op, args, w25q128fv_id, wr, calls, prev>>

(* ---------------- write (lines 325-430) ------------------------------- *)
\* line 341
PageStart(start_page, page_bytes_offset) ==
    U32Add(start_page, ToU32(page_bytes_offset \div W25Q128FV_PAGE_SIZE_IN_BYTES))

\* InitialRemaining with the offset inside the first page forgotten
InitialRemaining_IgnoresOffset(addr_start, page_start) ==
    W25Q128FV_PAGE_SIZE_IN_BYTES

\* lines 356-360: the uint16_t count of bytes left in the first page
InitialRemaining(addr_start, page_start) ==
    LET used == U32Sub(addr_start,
                       U32Mul(page_start, W25Q128FV_PAGE_SIZE_IN_BYTES))
        r == (W25Q128FV_PAGE_SIZE_IN_BYTES - used[2]) % Limb
    IN  IF r = 0 THEN W25Q128FV_PAGE_SIZE_IN_BYTES ELSE r

\* the locals of the function after line 360
InitialLocals(start_page, page_bytes_offset, size) ==
    LET addr_start == FlashMemoryAddr(start_page, page_bytes_offset)
        page_start == PageStart(start_page, page_bytes_offset)
    IN  [current_w25q128fv_flash_memory_address |-> addr_start,
         w25q128fv_flash_memory_addr_end_plus_one |-> U32Add(addr_start, size),
         page_program_instruction |->
             [i \in 0..(W25Q128FV_PAGE_PROGRAM_INSTRUCTION_MAX_SIZE_IN_BYTES - 1)
                 |-> IF i = 0 THEN W25Q128FV_PAGE_PROGRAM_INSTRUCTION ELSE Uninit],
         currently_written_bytes |-> NoU32,
         current_page_program_instruction_size |-> 4,
         current_page_to_write |-> page_start,
         next_page_to_write |-> U32Inc(page_start),
         remaining_writable_bytes_in_current_page |->
             InitialRemaining(addr_start, page_start),
         current_byte |-> 0]

\* MoreToWrite with <= in place of <
MoreToWrite_Inclusive(w) ==
    ~ U32Lt(w.w25q128fv_flash_memory_addr_end_plus_one,
            w.current_w25q128fv_flash_memory_address)

\* line 363: the condition of the outer loop
MoreToWrite(w) ==
    U32Lt(w.current_w25q128fv_flash_memory_address,
          w.w25q128fv_flash_memory_addr_end_plus_one)

\* AtPageStart with the single-byte branch of line 380 never taken
AtPageStart_Never(remaining) == FALSE

\* line 380
AtPageStart(remaining) == remaining = W25Q128FV_PAGE_SIZE_IN_BYTES

\* CopyOne reading the source at the index inside the frame
CopyOne_SourceIndexedByFrame(w, k) ==
    [w EXCEPT
       !.page_program_instruction[4 + k] = Src(k),
       !.currently_written_bytes = U32Inc(@),
       !.current_page_program_instruction_size = (@ + 1) % Limb,
       !.current_w25q128fv_flash_memory_address = U32Inc(@),
       !.remaining_writable_bytes_in_current_page = (@ - 1) % Limb]

\* lines 382-385 and 391-394: one source byte goes to
\* page_program_instruction_data[k]
CopyOne(w, k) ==
    [w EXCEPT
       !.page_program_instruction[4 + k] = Src(ToInt(w.currently_written_bytes)),
       !.currently_written_bytes = U32Inc(@),
       !.current_page_program_instruction_size = (@ + 1) % Limb,
       !.current_w25q128fv_flash_memory_address = U32Inc(@),
       !.remaining_writable_bytes_in_current_page = (@ - 1) % Limb]

\* lines 405-408
AdvanceNextPage(w) ==
    IF w.current_page_to_write = w.next_page_to_write
    THEN [w EXCEPT !.next_page_to_write = U32Inc(@)]
    ELSE w

\* the bytes handed to HAL_SPI_Transmit at line 412
PageProgramFrame(w) ==
    [i \in 1..w.current_page_program_instruction_size
        |-> w.page_program_instruction[i - 1]]

\* entry, validation and first test of the loop condition (lines 330-363)
write_flash_memory ==
    /\ Enter("write_flash_memory")
    /\ \E sp \in StartPages, off \in Offsets, sz \in Sizes :
         LET w == InitialLocals(sp, off, sz)
         IN  /\ args' = [NoArgs EXCEPT !.start_page = sp,
                                       !.page_bytes_offset = off,
                                       !.size = sz]
             /\ IF U32Gt(w.w25q128fv_flash_memory_addr_end_plus_one, TotalSize)
                THEN /\ Do(<<>>, <<>>, "idle", "W25Q128FV_EC_ERR")
                     /\ wr' = NoLocals
                ELSE /\ wr' = w
                     /\ IF MoreToWrite(w)
                        THEN Do(<<>>, <<>>, "wr_we", "NONE")
                        ELSE Do(<<>>, <<>>, "idle", "W25Q128FV_EC_OK")
    /\ w25q128fv_id' = 0

\* the write-enable exchange of one sub-instruction (lines 365-370)
write_enable ==
    /\ pc = "wr_we"
    /\ \E h \in HAL_StatusTypeDef :
         LET we == send_w25q128fv_write_enable_instruction(h)
         IN  IF we.ret # "W25Q128FV_EC_OK"
             THEN Return(we.events, "W25Q128FV_EC_ERR")
             ELSE Step(we.events, "wr_fm")
    /\ UNCHANGED <<op, args, w25q128fv_id, wr, calls, prev>>

\* address field, chip-select low, and either the single byte of a page
\* start or the entry of the per-byte loop (lines 372-389)
formulate ==
    /\ pc = "wr_fm"
    /\ LET a == wr.current_w25q128fv_flash_memory_address
           w == [wr EXCEPT !.page_program_instruction[1] = Shr16Byte(a),
                           !.page_program_instruction[2] = Shr8Byte(a),
                           !.page_program_instruction[3] = LowByte(a),
                           !.current_page_program_instruction_size = 4]
       IN  IF AtPageStart(w.remaining_writable_bytes_in_current_page)
           THEN /\ wr' = CopyOne(w, 0)
                /\ Step(<<EvCsLow>>, "wr_tx")
           ELSE /\ wr' = [w EXCEPT !.current_byte = 0]
                /\ Step(<<EvCsLow>>, "wr_for")
    /\ UNCHANGED <<op, args, w25q128fv_id, calls, prev>>

\* one iteration of the per-byte loop (lines 389-404)
copy_byte ==
    /\ pc = "wr_for"
    /\ U32Lt(wr.current_page_to_write, wr.next_page_to_write)
    /\ LET w == CopyOne(wr, wr.current_byte)
       IN  IF w.remaining_writable_bytes_in_current_page = 0
           THEN /\ wr' = [w EXCEPT
                            !.current_page_to_write = U32Inc(@),
                            !.remaining_writable_bytes_in_current_page =
                                W25Q128FV_PAGE_SIZE_IN_BYTES,
                            !.current_byte = (@ + 1) % 256]
                /\ Step(<<>>, "wr_for")
           ELSE IF w.currently_written_bytes = args.size
           THEN /\ wr' = AdvanceNextPage(w)
                /\ Step(<<>>, "wr_tx")
           ELSE /\ wr' = [w EXCEPT !.current_byte = (@ + 1) % 256]
                /\ Step(<<>>, "wr_for")
    /\ UNCHANGED <<op, args, w25q128fv_id, calls, prev>>

\* the per-byte loop ends because the page is full (lines 389, 405-408)
page_full ==
    /\ pc = "wr_for"
    /\ ~ U32Lt(wr.current_page_to_write, wr.next_page_to_write)
    /\ wr' = AdvanceNextPage(wr)
    /\ Step(<<>>, "wr_tx")
    /\ UNCHANGED <<op, args, w25q128fv_id, calls, prev>>

\* page_program_transmit that sends a write-disable after a failed transmit
page_program_transmit_DisablesOnFailure ==
    /\ pc = "wr_tx"
    /\ \E h \in HAL_StatusTypeDef :
         LET es == <<EvTx(PageProgramFrame(wr), h), EvCsHigh>>
             r  == HAL_ret_handler(h)
             wd == send_w25q128fv_write_disable_instruction("HAL_OK")
         IN  IF r # "W25Q128FV_EC_OK"
             THEN Return(es \o wd.events, r)
             ELSE Step(es \o <<EvDelay(3)>>, "wr_wd")
    /\ UNCHANGED <<op, args, w25q128fv_id, wr, calls, prev>>

\* transmit of the page-program frame and the completion delay
\* (lines 411-419)
page_program_transmit ==
    /\ pc = "wr_tx"
    /\ \E h \in HAL_StatusTypeDef :
         LET es == <<EvTx(PageProgramFrame(wr), h), EvCsHigh>>
             r  == HAL_ret_handler(h)
         IN  IF r # "W25Q128FV_EC_OK"
             THEN Return(es, r)
             ELSE Step(es \o <<EvDelay(3)>>, "wr_wd")
    /\ UNCHANGED <<op, args, w25q128fv_id, wr, calls, prev>>

\* the write-disable exchange and the next test of the loop condition
\* (lines 421-429, 363)
write_disable ==
    /\ pc = "wr_wd"
    /\ \E h \in HAL_StatusTypeDef :
         LET wd == send_w25q128fv_write_disable_instruction(h)
         IN  IF wd.ret # "W25Q128FV_EC_OK"
             THEN Return(wd.events, "W25Q128FV_EC_ERR")
             ELSE IF MoreToWrite(wr)
             THEN Step(wd.events, "wr_we")
             ELSE Return(wd.events, "W25Q128FV_EC_OK")
    /\ UNCHANGED <<op, args, w25q128fv_id, wr, calls, prev>>

(* ---------------- specification ---------------------------------------- *)
Next ==
    \/ software_reset
    \/ read_id
    \/ read_id_receive
    \/ read_flash_memory
    \/ read_flash_memory_transmit
    \/ read_flash_memory_receive
    \/ fast_read_flash_memory
    \/ fast_read_flash_memory_transmit
    \/ fast_read_flash_memory_receive
    \/ erase_sector
    \/ erase_sector_transmit
    \/ erase_sector_write_disable
    \/ chip_erase
    \/ chip_erase_transmit
    \/ chip_erase_write_disable
    \/ write_flash_memory
    \/ write_enable
    \/ formulate
    \/ copy_byte
    \/ page_full
    \/ page_program_transmit
    \/ write_disable
    \/ caller_continues

Spec == Init /\ [][Next]_vars

\* the steps of a running w25q128fv_write_flash_memory
WriteSteps ==
    \/ write_enable
    \/ formulate
    \/ copy_byte
    \/ page_full
    \/ page_program_transmit
    \/ write_disable

\* the processor keeps executing a write that has been called
SpecLive == Spec /\ WF_vars(WriteSteps)

\* a caller that only reads the identifier
NextReadId ==
    \/ read_id
    \/ read_id_receive
    \/ caller_continues

SpecReadId == Init /\ [][NextReadId]_vars

\* a caller that only erases sectors, one call after the other
NextErase ==
    \/ erase_sector_again
    \/ erase_sector_transmit
    \/ erase_sector_write_disable

SpecErase == Init /\ [][NextErase]_vars

TypeOK ==
    /\ cs \in {"high", "low"}
    /\ ret \in {"NONE", "W25Q128FV_EC_OK", "W25Q128FV_EC_NR", "W25Q128FV_EC_ERR"}
    /\ (pc = "idle" /\ op # "none") <=> ret # "NONE"

(* ---------------- notions used by the properties ----------------------- *)
IsWrite == op = "write_flash_memory"

\* the page-program frames transmitted so far, in emission order
IsPageProgram(e) ==
    e.ev = "tx" /\ e.frame[1] = W25Q128FV_PAGE_PROGRAM_INSTRUCTION

PPEvents == SelectSeq(bus, IsPageProgram)

PPFrames == [k \in 1..Len(PPEvents) |-> PPEvents[k].frame]

\* address and payload of a page-program frame as the device decodes them
FrameAddr(f) == f[2] * 65536 + f[3] * 256 + f[4]
PayloadLen(f) == Len(f) - 4
Payload(f) == SubSeq(f, 5, Len(f))

RECURSIVE PayloadSum(_, _)
PayloadSum(F, k) == IF k = 0 THEN 0 ELSE PayloadSum(F, k - 1) + PayloadLen(F[k])

RECURSIVE PayloadConcat(_, _)
PayloadConcat(F, k) ==
    IF k = 0 THEN <<>> ELSE PayloadConcat(F, k - 1) \o Payload(F[k])

\* every transmit and receive so far reported HAL_OK
AllSucceeded ==
    \A i \in 1..Len(bus) : bus[i].ev \in {"tx", "rx"} => bus[i].hal = "HAL_OK"

\* start_page*256 + offset + length as a mathematical integer, in units of
\* 65536 (high part) and below (low part)
ResolvedEndLowSum(a) ==
    (a.start_page[2] % 256) * 256 + a.page_bytes_offset + a.size[2]
ResolvedEndHigh(a) ==
    a.start_page[1] * 256 + (a.start_page[2] \div 256) + a.size[1]
        + (ResolvedEndLowSum(a) \div Limb)
ResolvedEndLow(a) == ResolvedEndLowSum(a) % Limb

\* resolved_end > total_bytes, over the integers
ResolvedEndExceeds(a) ==
    \/ ResolvedEndHigh(a) > TotalSize[1]
    \/ ResolvedEndHigh(a) = TotalSize[1] /\ ResolvedEndLow(a) > TotalSize[2]

\* start address and length of a request whose resolved end is in range
StartAddress(a) == ToInt(a.start_page) * 256 + a.page_bytes_offset
Length(a) == ToInt(a.size)

(* ---------------- C1 ---------------------------------------------------- *)
\* C1: for a write request in range with length >= 1 and a transport that
\* always succeeds, the page-program frames emitted so far start at
\* start_page*256 + offset, each starts where the previous one ended, their
\* payloads concatenated are the source bytes in order, and when the
\* operation has returned they cover exactly [start, start + length).
C1_SplitCoversRequest ==
    (IsWrite /\ ~ResolvedEndExceeds(args) /\ Length(args) >= 1 /\ AllSucceeded)
    => LET F == PPFrames
           n == Len(F)
           total == PayloadSum(F, n)
       IN  /\ \A k \in 1..n :
                 /\ PayloadLen(F[k]) >= 1
                 /\ FrameAddr(F[k]) = StartAddress(args) + PayloadSum(F, k - 1)
           /\ total <= Length(args)
           /\ PayloadConcat(F, n) = [i \in 1..total |-> Src(i - 1)]
           /\ pc = "idle" => (ret = "W25Q128FV_EC_OK" /\ total = Length(args))

C1_Witness ==
    /\ IsWrite /\ pc = "idle" /\ ret = "W25Q128FV_EC_OK" /\ AllSucceeded
    /\ ~ResolvedEndExceeds(args)
    /\ args.page_bytes_offset = 250
    /\ Len(PPFrames) >= 3
    /\ PayloadSum(PPFrames, Len(PPFrames)) = 257

(* ---------------- C2 ---------------------------------------------------- *)
NoPageCrossing(s, n) ==
    s \div W25Q128FV_PAGE_SIZE_IN_BYTES
        = (s + n - 1) \div W25Q128FV_PAGE_SIZE_IN_BYTES

\* address and payload length of the frame under construction
BuildingAddr ==
    wr.page_program_instruction[1] * 65536
        + wr.page_program_instruction[2] * 256 + wr.page_program_instruction[3]
BuildingLen == wr.current_page_program_instruction_size - 4

\* C2: no page-program frame emitted by write crosses a page boundary, and
\* neither does the frame under construction at any step of the loop.
C2_NoPageCrossing ==
    IsWrite =>
      /\ \A k \in 1..Len(PPFrames) :
            /\ PayloadLen(PPFrames[k]) >= 1
            /\ NoPageCrossing(FrameAddr(PPFrames[k]), PayloadLen(PPFrames[k]))
      /\ (pc \in {"wr_for", "wr_tx"} /\ BuildingLen >= 1)
            => NoPageCrossing(BuildingAddr, BuildingLen)

\* a frame that ends on the last byte of its page was emitted from inside it
C2_Witness ==
    /\ IsWrite
    /\ \E k \in 1..Len(PPFrames) :
          /\ FrameAddr(PPFrames[k]) % 256 = 250
          /\ PayloadLen(PPFrames[k]) = 6
    /\ Len(PPFrames) >= 2

(* ---------------- C3 ---------------------------------------------------- *)
\* C3: every page-program frame carries 1..255 payload bytes, so it is at
\* most 259 bytes long, and every index written into the 259-byte buffer
\* page_program_instruction is below 259.
C3_FrameFitsBuffer ==
    IsWrite =>
      /\ \A k \in 1..Len(PPFrames) :
            /\ PayloadLen(PPFrames[k]) >= 1
            /\ PayloadLen(PPFrames[k]) <= W25Q128FV_MAX_CONSECUTIVE_PROGRAMMABLE_BYTES
            /\ Len(PPFrames[k]) <= W25Q128FV_PAGE_PROGRAM_INSTRUCTION_MAX_SIZE_IN_BYTES
      /\ (pc = "wr_for" /\ U32Lt(wr.current_page_to_write, wr.next_page_to_write))
            => 4 + wr.current_byte
                 < W25Q128FV_PAGE_PROGRAM_INSTRUCTION_MAX_SIZE_IN_BYTES
      /\ pc \in {"wr_for", "wr_tx"}
            => wr.current_page_program_instruction_size
                 <= W25Q128FV_PAGE_PROGRAM_INSTRUCTION_MAX_SIZE_IN_BYTES

C3_Witness ==
    /\ IsWrite
    /\ \E k \in 1..Len(PPFrames) :
          Len(PPFrames[k]) = W25Q128FV_PAGE_PROGRAM_INSTRUCTION_MAX_SIZE_IN_BYTES

(* ---------------- C4 ---------------------------------------------------- *)
IsRangeOp ==
    op \in {"read_flash_memory", "fast_read_flash_memory", "write_flash_memory"}

\* C4: a read, fast read or write whose resolved end, over the integers,
\* exceeds total_bytes returns W25Q128FV_EC_ERR without any chip-select
\* toggle, transmit or receive.
C4_OutOfRangeRejectedBeforeBus ==
    (IsRangeOp /\ ResolvedEndExceeds(args))
    => /\ bus = <<>>
       /\ cs = "high"
       /\ pc = "idle" => ret = "W25Q128FV_EC_ERR"

(* ---------------- C5 ---------------------------------------------------- *)
\* sector_number >= total_sectors, over the integers
SectorOutOfRange(n) == n[1] > 0 \/ n[2] >= W25Q128FV_TOTAL_SECTORS

\* C5: erase_sector with a sector index >= 4085 returns W25Q128FV_EC_ERR and
\* issues no bus traffic.
C5_BadSectorRejectedBeforeBus ==
    (op = "erase_sector" /\ SectorOutOfRange(args.sector_number))
    => /\ bus = <<>>
       /\ cs = "high"
       /\ pc = "idle"
       /\ ret = "W25Q128FV_EC_ERR"

C5_Witness ==
    /\ op = "erase_sector"
    /\ args.sector_number = ToU32(W25Q128FV_TOTAL_SECTORS)
    /\ pc = "idle"
    /\ ret = "W25Q128FV_EC_ERR"
    /\ bus = <<>>

(* ---------------- C6 ---------------------------------------------------- *)
\* read_id returned after a successful transmit and a successful receive
ReadIdExchanged ==
    /\ op = "read_id" /\ pc = "idle"
    /\ Len(bus) = 4
    /\ bus[2].hal = "HAL_OK"
    /\ bus[3].ev = "rx" /\ bus[3].hal = "HAL_OK"

\* C6: when transmit and receive succeed, read_id returns W25Q128FV_EC_NR
\* for the response 0,0,0 and otherwise W25Q128FV_EC_OK with the identifier
\* b0*65536 + b1*256 + b2.
C6_ReadIdResult ==
    ReadIdExchanged
    => LET b == bus[3].frame
       IN  IF b = <<0, 0, 0>>
           THEN ret = "W25Q128FV_EC_NR"
           ELSE /\ ret = "W25Q128FV_EC_OK"
                /\ w25q128fv_id = b[1] * 65536 + b[2] * 256 + b[3]

C6_Witness ==
    /\ ReadIdExchanged
    /\ bus[3].frame = <<239, 64, 24>>
    /\ ret = "W25Q128FV_EC_OK"
    /\ w25q128fv_id = 15679512

(* ---------------- C7 ---------------------------------------------------- *)
\* start address and payload length of every page-program frame emitted
Chunks ==
    [k \in 1..Len(PPFrames) |-> <<FrameAddr(PPFrames[k]), PayloadLen(PPFrames[k])>>]

\* the write of 300 bytes at page 0, offset 250 returned, transport succeeding
Scenario300Done ==
    /\ IsWrite /\ pc = "idle" /\ AllSucceeded
    /\ args.start_page = ToU32(0)
    /\ args.page_bytes_offset = 250
    /\ args.size = ToU32(300)

\* C7 as stated: the write of 300 bytes at page 0, offset 250 emits exactly
\* 6 bytes at 250, 256 bytes at 256 and 38 bytes at 512.
C7_ThreeChunks_Original ==
    Scenario300Done => Chunks = <<<<250, 6>>, <<256, 256>>, <<512, 38>>>>

\* C7 amended: the write of 300 bytes at page 0, offset 250 emits exactly
\* five page-program frames: 6 bytes at 250, 1 byte at 256, 255 bytes at 257,
\* 1 byte at 512 and 37 bytes at 513.
C7_FiveChunks ==
    Scenario300Done
    => /\ Chunks = <<<<250, 6>>, <<256, 1>>, <<257, 255>>, <<512, 1>>, <<513, 37>>>>
       /\ ret = "W25Q128FV_EC_OK"

C7_Witness ==
    /\ Scenario300Done
    /\ ret = "W25Q128FV_EC_OK"
    /\ Len(PPFrames) = 5

(* ---------------- C8 ---------------------------------------------------- *)
\* a write of one full page at offset 0 of a valid page returned, transport
\* succeeding
FullPageDone ==
    /\ IsWrite /\ pc = "idle" /\ AllSucceeded
    /\ ~ResolvedEndExceeds(args)
    /\ args.page_bytes_offset = 0
    /\ args.size = ToU32(W25Q128FV_PAGE_SIZE_IN_BYTES)

\* C8 as stated: a write of 256 bytes at offset 0 of a valid page emits
\* exactly one page-program frame, with a payload of 256 bytes.
C8_OneFullChunk_Original ==
    FullPageDone
    => Chunks = <<<<StartAddress(args), W25Q128FV_PAGE_SIZE_IN_BYTES>>>>

\* C8 amended: a write of 256 bytes at offset 0 of a valid page emits exactly
\* two page-program frames: 1 byte at the first address of the page, then
\* 255 bytes at the next address.
C8_OnePlus255 ==
    FullPageDone
    => /\ Chunks = <<<<StartAddress(args), 1>>,
                     <<StartAddress(args) + 1,
                       W25Q128FV_MAX_CONSECUTIVE_PROGRAMMABLE_BYTES>>>>
       /\ ret = "W25Q128FV_EC_OK"

C8_Witness ==
    /\ FullPageDone
    /\ args.start_page = ToU32(65355)
    /\ ret = "W25Q128FV_EC_OK"
    /\ Len(PPFrames) = 2

(* ---------------- C9 ---------------------------------------------------- *)
IsMutatingOp == op \in {"erase_sector", "chip_erase", "write_flash_memory"}

\* a page-program, sector-erase or chip-erase frame on the bus
IsMutating(e) ==
    /\ e.ev = "tx"
    /\ e.frame[1] \in {W25Q128FV_PAGE_PROGRAM_INSTRUCTION,
                       W25Q128FV_SECTOR_ERASE_INSTRUCTION,
                       W25Q128FV_CHIP_ERASE_INSTRUCTION}

MutatingIdx == {i \in 1..Len(bus) : IsMutating(bus[i])}

\* C9: a mutating frame is transmitted only right after a write-enable frame
\* that reported success and had a chip-select bracket of its own.
C9_WriteEnableBefore ==
    IsMutatingOp =>
      \A i \in MutatingIdx :
         /\ i >= 5
         /\ bus[i - 4] = EvCsLow
         /\ bus[i - 3] = EvTx(<<W25Q128FV_WRITE_ENABLE_INSTRUCTION>>, "HAL_OK")
         /\ bus[i - 2] = EvCsHigh
         /\ bus[i - 1] = EvCsLow

C9_Witness ==
    /\ IsWrite
    /\ Cardinality(MutatingIdx) >= 2
    /\ \E i \in MutatingIdx : bus[i].hal # "HAL_OK"

(* ---------------- C10 --------------------------------------------------- *)
\* the exchange after the frame at i is a write-disable frame in a bracket
\* of its own
FollowedByWriteDisable(i) ==
    /\ i + 1 <= Len(bus) /\ bus[i + 1] = EvCsHigh
    /\ \E j \in (i + 3)..(Len(bus) - 1) :
          /\ \A m \in (i + 1)..(j - 1) : bus[m].ev \notin {"tx", "rx"}
          /\ \A m \in (i + 2)..(j - 2) : bus[m].ev \notin {"cs_low", "cs_high"}
          /\ bus[j - 1] = EvCsLow
          /\ bus[j].ev = "tx"
          /\ bus[j].frame = <<W25Q128FV_WRITE_DISABLE_INSTRUCTION>>
          /\ bus[j + 1] = EvCsHigh

\* C10 as stated: when the operation has returned, every mutating frame was
\* followed by a write-disable exchange, whatever the transport reported.
C10_WriteDisableAfter_Original ==
    (IsMutatingOp /\ pc = "idle")
    => \A i \in MutatingIdx : FollowedByWriteDisable(i)

\* C10 amended: when the operation has returned, every mutating frame whose
\* transmit reported success was followed by a write-disable exchange in a
\* bracket of its own, and a mutating frame whose transmit failed was the
\* last exchange of the operation.
C10_WriteDisableAfterSuccess ==
    (IsMutatingOp /\ pc = "idle")
    => \A i \in MutatingIdx :
          IF bus[i].hal = "HAL_OK"
          THEN FollowedByWriteDisable(i)
          ELSE i + 1 = Len(bus) /\ bus[i + 1] = EvCsHigh

C10_Witness ==
    /\ op = "erase_sector" /\ pc = "idle"
    /\ \E i \in MutatingIdx : bus[i].hal = "HAL_OK" /\ FollowedByWriteDisable(i)
    /\ ret = "W25Q128FV_EC_OK"

(* ---------------- C11 --------------------------------------------------- *)
\* a public operation has returned
Returned == pc = "idle" /\ op # "none"

\* C11: chip-select, deasserted when a public operation is called, is
\* deasserted when the operation returns, on every exit path.
C11_ChipSelectReleased == Returned => cs = "high"

\* a read returned because its receive failed, after chip-select went low
C11_Witness ==
    /\ Returned /\ op = "fast_read_flash_memory"
    /\ ret # "W25Q128FV_EC_OK"
    /\ Len(bus) = 4 /\ bus[1] = EvCsLow /\ bus[3].ev = "rx"
    /\ cs = "high"

(* ---------------- C12 --------------------------------------------------- *)
\* the exchanges (transmits and receives) of the log
ExchangeIdx == {i \in 1..Len(bus) : bus[i].ev \in {"tx", "rx"}}

FailedIdx == {i \in ExchangeIdx : bus[i].hal # "HAL_OK"}

\* StatusMapper of the specification
StatusMapper(outcome) ==
    IF outcome \in {"HAL_BUSY", "HAL_TIMEOUT"} THEN "W25Q128FV_EC_NR"
    ELSE IF outcome = "HAL_ERROR" THEN "W25Q128FV_EC_ERR"
    ELSE "W25Q128FV_EC_OK"

\* C12: a returned operation whose first failing exchange reported outcome o
\* returns StatusMapper(o), also when that exchange is a write-enable or
\* write-disable; and it returns W25Q128FV_EC_OK only if no exchange failed.
C12_FirstFaultMapped ==
    Returned =>
      /\ \A i \in FailedIdx :
            (\A j \in FailedIdx : i <= j) => ret = StatusMapper(bus[i].hal)
      /\ ret = "W25Q128FV_EC_OK" => FailedIdx = {}

(* ---------------- C13 --------------------------------------------------- *)
\* C13: once a transmit or receive reported a fault, the call performs no
\* further transmit or receive.
C13_NoExchangeAfterFault ==
    \A i \in FailedIdx : \A j \in ExchangeIdx : j <= i

\* a write returned because the page-program transmit of its second
\* sub-instruction failed
C13_Witness ==
    /\ Returned /\ IsWrite
    /\ Len(PPEvents) = 2
    /\ PPEvents[1].hal = "HAL_OK"
    /\ PPEvents[2].hal = "HAL_TIMEOUT"
    /\ U32Lt(wr.current_w25q128fv_flash_memory_address,
             wr.w25q128fv_flash_memory_addr_end_plus_one)

(* ---------------- C14 --------------------------------------------------- *)
\* a frame that carries a 3-byte address
IsAddressed(e) ==
    /\ e.ev = "tx"
    /\ e.frame[1] \in {W25Q128FV_READ_DATA_INSTRUCTION,
                       W25Q128FV_FAST_READ_INSTRUCTION,
                       W25Q128FV_SECTOR_ERASE_INSTRUCTION,
                       W25Q128FV_PAGE_PROGRAM_INSTRUCTION}

AddressedIdx == {i \in 1..Len(bus) : IsAddressed(bus[i])}

\* C14: every 3-byte address field put on the bus encodes an address below
\* total_bytes.
C14_AddressBelowTotal ==
    \A i \in AddressedIdx :
       FrameAddr(bus[i].frame) < W25Q128FV_FLASH_MEMORY_TOTAL_SIZE_IN_BYTES

(* ---------------- C15 --------------------------------------------------- *)
\* every exchange of the log b reported success
TransportSucceeded(b) ==
    \A i \in 1..Len(b) : b[i].ev \in {"tx", "rx"} => b[i].hal = "HAL_OK"

\* write-enable, sector-erase of sector n, completion delay, write-disable
EraseSectorTrace(n) ==
    LET a == n * 4096
    IN  <<EvCsLow, EvTx(<<6>>, "HAL_OK"), EvCsHigh,
          EvCsLow,
          EvTx(<<32, (a \div 65536) % 256, (a \div 256) % 256, a % 256>>,
               "HAL_OK"),
          EvCsHigh,
          EvDelay(400),
          EvCsLow, EvTx(<<4>>, "HAL_OK"), EvCsHigh>>

\* two consecutive erase_sector calls on the same valid sector have returned
\* and no exchange of either failed
ErasedTwice ==
    /\ Returned /\ op = "erase_sector"
    /\ prev.op = "erase_sector"
    /\ prev.args.sector_number = args.sector_number
    /\ ~SectorOutOfRange(args.sector_number)
    /\ TransportSucceeded(prev.bus) /\ TransportSucceeded(bus)

\* C15: two consecutive erase_sector calls on the same valid sector, over a
\* transport that always succeeds, both return W25Q128FV_EC_OK and put the
\* same events on the bus: write-enable, the sector-erase frame with the same
\* address, the delay, write-disable.
C15_EraseSectorIdempotent ==
    ErasedTwice =>
      /\ prev.ret = "W25Q128FV_EC_OK" /\ ret = "W25Q128FV_EC_OK"
      /\ bus = prev.bus
      /\ bus = EraseSectorTrace(ToInt(args.sector_number))

C15_Witness ==
    /\ ErasedTwice
    /\ args.sector_number = ToU32(W25Q128FV_TOTAL_SECTORS_MINUS_ONE)
    /\ Len(prev.bus) = 10 /\ Len(bus) = 10

(* ---------------- C16 --------------------------------------------------- *)
Min2(a, b) == IF a <= b THEN a ELSE b

\* bytes from the address a to the end of its page
RemainingInPage(a) ==
    W25Q128FV_PAGE_SIZE_IN_BYTES - (a % W25Q128FV_PAGE_SIZE_IN_BYTES)

\* request bytes not yet emitted before the k-th page-program frame
BytesLeft(k) == ToInt(args.size) - PayloadSum(PPFrames, k - 1)

\* C16 as stated: every page-program frame carries
\* min(remaining_in_page, bytes_left, max_payload_per_instruction) bytes.
C16_ChunkIsMin_Original ==
    IsWrite =>
      \A k \in 1..Len(PPFrames) :
         PayloadLen(PPFrames[k])
           = Min2(Min2(RemainingInPage(FrameAddr(PPFrames[k])), BytesLeft(k)),
                  W25Q128FV_MAX_CONSECUTIVE_PROGRAMMABLE_BYTES)

\* C16 amended: a page-program frame whose address is the first byte of a
\* page carries 1 byte; every other one carries
\* min(remaining_in_page, bytes_left) bytes, which is at most 255.
C16_ChunkRule ==
    IsWrite =>
      \A k \in 1..Len(PPFrames) :
         LET a == FrameAddr(PPFrames[k])
         IN  /\ PayloadLen(PPFrames[k])
                  = IF a % W25Q128FV_PAGE_SIZE_IN_BYTES = 0 THEN 1
                    ELSE Min2(RemainingInPage(a), BytesLeft(k))
             /\ PayloadLen(PPFrames[k])
                  <= W25Q128FV_MAX_CONSECUTIVE_PROGRAMMABLE_BYTES

\* a write whose frames show each case: bytes_left the smallest, a page start
\* with more than one byte left, remaining_in_page the smallest
C16_Witness ==
    /\ IsWrite /\ Len(PPFrames) >= 3
    /\ args.size = ToU32(257) /\ args.page_bytes_offset = 0
    /\ PayloadLen(PPFrames[1]) = 1
    /\ PayloadLen(PPFrames[2]) = 255
    /\ PayloadLen(PPFrames[3]) = 1
    /\ BytesLeft(3) = 1

(* ---------------- C17 --------------------------------------------------- *)
\* chip-select level right before the i-th event of the log, the line being
\* high when the operation was called
LevelBefore(i) ==
    LET idx == {j \in 1..(i - 1) : bus[j].ev \in {"cs_low", "cs_high"}}
    IN  IF idx = {} THEN "high"
        ELSE LET last == CHOOSE j \in idx : \A m \in idx : m <= j
             IN  IF bus[last].ev = "cs_low" THEN "low" ELSE "high"

\* C17: every transmit and receive happens while chip-select is low, assert
\* and deassert strictly alternate, and the receive of read_id, read and
\* fast_read follows the instruction transmit with no chip-select event
\* between them.
C17_ExchangesInsideBracket ==
    \A i \in 1..Len(bus) :
       /\ bus[i].ev \in {"tx", "rx"} => LevelBefore(i) = "low"
       /\ bus[i].ev = "cs_low" => LevelBefore(i) = "high"
       /\ bus[i].ev = "cs_high" => LevelBefore(i) = "low"
       /\ bus[i].ev = "rx" => i > 1 /\ bus[i - 1].ev = "tx"

\* a read received its data inside the bracket of its instruction
C17_Witness ==
    /\ op = "read_flash_memory" /\ Returned
    /\ ret = "W25Q128FV_EC_OK"
    /\ Len(bus) = 4
    /\ bus[1].ev = "cs_low" /\ bus[2].ev = "tx"
    /\ bus[3].ev = "rx" /\ bus[4].ev = "cs_high"
    /\ args.size = ToU32(256)

(* ---------------- C18 --------------------------------------------------- *)
\* completion latency the driver waits after a mutating frame, in ms
CompletionDelay(opcode) ==
    CASE opcode = W25Q128FV_PAGE_PROGRAM_INSTRUCTION -> 3
      [] opcode = W25Q128FV_SECTOR_ERASE_INSTRUCTION -> 400
      [] opcode = W25Q128FV_CHIP_ERASE_INSTRUCTION -> 200000

\* after the i-th event a delay of ms milliseconds is taken before any
\* further transmit or receive
DelayedAfter(i, ms) ==
    \E d \in (i + 1)..Len(bus) :
       /\ bus[d].ev = "delay" /\ bus[d].ms = ms
       /\ \A j \in (i + 1)..(d - 1) : bus[j].ev \notin {"tx", "rx"}

IsReset(e) ==
    /\ e.ev = "tx"
    /\ e.frame = <<W25Q128FV_ENABLE_RESET_INSTRUCTION,
                   W25Q128FV_RESET_DEVICE_INSTRUCTION>>

\* C18: a page-program, sector-erase or chip-erase frame whose transmit
\* succeeded is followed by its completion delay (3, 400, 200000 ms) with no
\* transmit or receive between them, and a successful reset has waited its
\* delay (1 ms) when it returns.
C18_DelayAfterMutation ==
    \A i \in 1..Len(bus) :
       /\ (IsMutating(bus[i]) /\ bus[i].hal = "HAL_OK")
             => DelayedAfter(i, CompletionDelay(bus[i].frame[1]))
       /\ (IsReset(bus[i]) /\ bus[i].hal = "HAL_OK")
             => DelayedAfter(i, 1) /\ bus[Len(bus)].ev = "delay"

\* a chip erase waited 200000 ms and then sent its write-disable
C18_Witness ==
    /\ op = "chip_erase" /\ Returned
    /\ Len(bus) = 10
    /\ IsMutating(bus[5]) /\ bus[5].hal = "HAL_OK"
    /\ bus[7] = EvDelay(200000)
    /\ bus[9].ev = "tx"

(* ---------------- C19 --------------------------------------------------- *)
\* one sub-instruction on a transport that succeeds: write-enable, the
\* page-program frame for address a carrying data, the delay, write-disable
WriteGroup(a, data) ==
    <<EvCsLow, EvTx(<<6>>, "HAL_OK"), EvCsHigh,
      EvCsLow,
      EvTx(<<2, (a \div 65536) % 256, (a \div 256) % 256, a % 256>> \o data,
           "HAL_OK"),
      EvCsHigh,
      EvDelay(3),
      EvCsLow, EvTx(<<4>>, "HAL_OK"), EvCsHigh>>

\* the groups of a write of left bytes at address a, sent bytes of the source
\* having gone out before
RECURSIVE WriteTrace(_, _, _)
WriteTrace(a, left, sent) ==
    IF left = 0 THEN <<>>
    ELSE LET n == IF a % W25Q128FV_PAGE_SIZE_IN_BYTES = 0 THEN 1
                  ELSE Min2(RemainingInPage(a), left)
         IN  WriteGroup(a, [i \in 1..n |-> Src(sent + i - 1)])
               \o WriteTrace(a + n, left - n, sent + n)

\* the log with the reported outcomes left out
Outcomeless(b) ==
    [i \in 1..Len(b) |->
        IF b[i].ev \in {"tx", "rx"} THEN [b[i] EXCEPT !.hal = "HAL_OK"] ELSE b[i]]

IsPrefix(u, v) == Len(u) <= Len(v) /\ u = SubSeq(v, 1, Len(u))

\* a write returned because an exchange of one of its sub-instructions failed
WriteFailed == IsWrite /\ Returned /\ bus # <<>> /\ ~AllSucceeded

\* C19: the bus events of a write that failed at a sub-instruction are a
\* prefix of the events the same request emits on a transport that always
\* succeeds (which are the groups of WriteTrace): complete write-enable,
\* page-program, delay, write-disable groups for the chunks before the failed
\* one, then the exchanges of the failed chunk up to the fault, and no other
\* instruction.
C19_FailedWriteIsPrefix ==
    (IsWrite /\ Returned /\ bus # <<>>) =>
      LET T == WriteTrace(ToInt(FlashMemoryAddr(args.start_page,
                                                args.page_bytes_offset)),
                          ToInt(args.size), 0)
      IN  /\ AllSucceeded => bus = T
          /\ ~AllSucceeded =>
               /\ IsPrefix(Outcomeless(bus), T)
               /\ bus[Len(bus) - 1].hal # "HAL_OK"
               /\ \A i \in 1..(Len(bus) - 2) :
                     bus[i].ev = "tx" => bus[i].hal = "HAL_OK"

\* the write of 300 bytes at offset 250 failed at the write-enable of its
\* third sub-instruction, after two complete groups
C19_Witness ==
    /\ WriteFailed
    /\ args.size = ToU32(300) /\ args.page_bytes_offset = 250
    /\ args.start_page = ToU32(0)
    /\ Len(bus) = 23
    /\ bus[22].frame = <<W25Q128FV_WRITE_ENABLE_INSTRUCTION>>
    /\ bus[22].hal = "HAL_BUSY"

(* ---------------- C20 --------------------------------------------------- *)
\* (a / 65536) mod 256, (a / 256) mod 256, a mod 256
BigEndian(a) == <<(a \div 65536) % 256, (a \div 256) % 256, a % 256>>

\* start_page*256 + offset modulo 2^24, from the low 16 bits of start_page:
\* the three bytes of BigEndian depend on the address modulo 2^24 only
RequestAddr24(a) == a.start_page[2] * 256 + a.page_bytes_offset

\* the cursor of the k-th page-program frame, modulo 2^24
CursorAddr24(k) ==
    (RequestAddr24(args) + PayloadSum(PPFrames, k - 1)) % 16777216

\* C20: the three bytes after the opcode are the address big-endian, with
\* a = start_page*256 + offset in read and fast_read frames,
\* a = sector_number*4096 in sector-erase frames and a = the cursor in each
\* page-program frame; the read frame ends there and the fast-read frame has
\* one more byte.
C20_AddressBigEndian ==
    /\ \A i \in 1..Len(bus) :
          bus[i].ev = "tx" =>
            /\ op = "read_flash_memory" =>
                 bus[i].frame = <<W25Q128FV_READ_DATA_INSTRUCTION>>
                                  \o BigEndian(RequestAddr24(args))
            /\ op = "fast_read_flash_memory" =>
                 /\ Len(bus[i].frame) = 5
                 /\ SubSeq(bus[i].frame, 1, 4)
                      = <<W25Q128FV_FAST_READ_INSTRUCTION>>
                          \o BigEndian(RequestAddr24(args))
            /\ bus[i].frame[1] = W25Q128FV_SECTOR_ERASE_INSTRUCTION =>
                 bus[i].frame = <<W25Q128FV_SECTOR_ERASE_INSTRUCTION>>
                                  \o BigEndian(ToInt(args.sector_number) * 4096)
    /\ \A k \in 1..Len(PPFrames) :
          SubSeq(PPFrames[k], 1, 4)
            = <<W25Q128FV_PAGE_PROGRAM_INSTRUCTION>> \o BigEndian(CursorAddr24(k))

\* the frame of a fast read at page 65355, offset 250 (address 0xFF4BFA)
\* has been transmitted
C20_Witness ==
    /\ op = "fast_read_flash_memory"
    /\ Len(bus) >= 2 /\ bus[2].ev = "tx"
    /\ SubSeq(bus[2].frame, 1, 4) = <<11, 255, 75, 250>>

(* ---------------- C21 --------------------------------------------------- *)
\* validation let the request of the range operation through
Accepted ==
    IsRangeOp /\ ~(Returned /\ bus = <<>> /\ ret = "W25Q128FV_EC_ERR")

\* every page-program frame so far has 1..255 payload bytes and starts past
\* the frame before it
WriteProgress ==
    \A k \in 1..Len(PPFrames) :
       /\ PayloadLen(PPFrames[k]) >= 1
       /\ PayloadLen(PPFrames[k]) <= W25Q128FV_MAX_CONSECUTIVE_PROGRAMMABLE_BYTES
       /\ k > 1 => FrameAddr(PPFrames[k]) > FrameAddr(PPFrames[k - 1])

\* a write that has been called returns
WriteTerminates == (IsWrite /\ pc # "idle") ~> (pc = "idle")

\* C21: every sub-instruction of a write carries at least one and at most 255
\* payload bytes and advances the cursor, and an accepted write over a
\* transport that always succeeds has returned W25Q128FV_EC_OK only after all
\* size bytes went out.
C21_WriteConsumesAll ==
    IsWrite =>
      /\ WriteProgress
      /\ (Accepted /\ Returned /\ AllSucceeded) =>
            /\ ret = "W25Q128FV_EC_OK"
            /\ ToU32(PayloadSum(PPFrames, Len(PPFrames))) = args.size

(* ---------------- C22 --------------------------------------------------- *)
\* start_page*256 + offset + size, over the integers, is 2^32 or more: one
\* of the two uint32_t computations of the range validation wrapped
RangeArithmeticWrapped(a) == ResolvedEndHigh(a) >= Limb

\* C22: for a request that the range validation of read, fast_read or write
\* accepts, neither start_page*256 + offset nor start + size wrapped modulo
\* 2^32, and a write that returned W25Q128FV_EC_OK transmitted exactly size
\* payload bytes.
C22_AcceptedWithoutWrap ==
    /\ Accepted => ~RangeArithmeticWrapped(args)
    /\ (IsWrite /\ Returned /\ ret = "W25Q128FV_EC_OK")
          => ToU32(PayloadSum(PPFrames, Len(PPFrames))) = args.size

(* ---------------- C23 --------------------------------------------------- *)
IsSectorErase(e) ==
    e.ev = "tx" /\ e.frame[1] = W25Q128FV_SECTOR_ERASE_INSTRUCTION

\* C23: the sector of every sector-erase frame that erase_sector transmits,
\* [a, a + 4096) with a the address of the frame, ends at or below
\* total_bytes, the capacity that read, fast_read and write accept.
C23_SectorInsideCapacity ==
    \A i \in 1..Len(bus) :
       IsSectorErase(bus[i]) =>
          FrameAddr(bus[i].frame) + W25Q128FV_SECTOR_SIZE_IN_BYTES
             <= W25Q128FV_FLASH_MEMORY_TOTAL_SIZE_IN_BYTES

(* ---------------- C24 --------------------------------------------------- *)
\* C24: a step by which read_id returns anything but W25Q128FV_EC_OK leaves
\* the caller's identifier variable as it was: after a failed receive or an
\* all-zero response it holds what it held when the response was awaited, and
\* after a failed transmit it holds the value the caller called with.
C24_IdWrittenOnlyOnOk ==
    [][(op' = "read_id" /\ pc' = "idle" /\ ret' # "W25Q128FV_EC_OK")
          => IF pc = "id_rx"
             THEN w25q128fv_id' = w25q128fv_id
             ELSE w25q128fv_id' \in CallerIds]_vars

\* read_id returned W25Q128FV_EC_NR for an all-zero response that it
\* received, the caller's variable still holding 0xABCDEF
C24_Witness ==
    /\ ReadIdExchanged
    /\ bus[3].frame = <<0, 0, 0>>
    /\ ret = "W25Q128FV_EC_NR"
    /\ w25q128fv_id = 11259375

(* ---------------- C25 --------------------------------------------------- *)
\* a write of no bytes whose start address is at most total_bytes
EmptyWriteInRange ==
    IsWrite /\ args.size = ToU32(0) /\ ~ResolvedEndExceeds(args)

\* C25: a write with size 0 whose start address start_page*256 + offset is
\* at most total_bytes returns W25Q128FV_EC_OK without any bus activity: no
\* chip-select toggle, no transmit and no delay.
C25_EmptyWriteIsSilent ==
    EmptyWriteInRange =>
      /\ Returned
      /\ ret = "W25Q128FV_EC_OK"
      /\ bus = <<>>
      /\ cs = "high"

\* the empty write at start_page 65356, offset 0, whose start address is
\* total_bytes itself, returned
C25_Witness ==
    /\ EmptyWriteInRange /\ Returned
    /\ args.start_page = ToU32(W25Q128FV_FLASH_MEMORY_TOTAL_SIZE_IN_BYTES
                                 \div W25Q128FV_PAGE_SIZE_IN_BYTES)
    /\ args.page_bytes_offset = 0
    /\ ret = "W25Q128FV_EC_OK"

====
